---- MODULE Spec2Model ----
(***************************************************************************)
(* Model of lia's review scheduler (LearningProvider over the SQLite       *)
(* review store and the file record store), of the match engine            *)
(* (KnowledgeProvider.ask) and of the lifecycle of the scoring worker      *)
(* (DeamonProcessHandler).                                                 *)
(*                                                                         *)
(* Time: a timestamp is an integer number of clock ticks; a calendar day   *)
(* holds TicksPerDay ticks, so datetime.date() is DateOf and               *)
(* timedelta(days=d) is d * TicksPerDay ticks.  One call reads the clock   *)
(* once (the calls are single-threaded and last microseconds).             *)
(***************************************************************************)
EXTENDS Integers, Sequences, FiniteSets, TLC

VARIABLES
    now,                    \* datetime.today(), in ticks
    records,                \* Record Store: topic -> number of distinct records
    review_groups,          \* Review Store: the rows of table review_groups, in id order
    current_review_group,   \* provider -> LearningProvider._current_review_group
    position,               \* provider -> LearningProvider._current_reviewed_record_position
    shown,                  \* history: the (group id, position) pairs returned since the group's count last changed
    calls,                  \* history: provider -> get_next_record_to_review calls since init_review_session
    ret,                    \* outcome of the last call
    headings,               \* Record Store: topic -> the headings of the topic's file, in file order
    sentence_similarity_checker,  \* KnowledgeProvider.sentence_similarity_checker: TRUE when a scorer is configured, FALSE for None
    answer,                 \* outcome of the last KnowledgeProvider.ask
    processes,              \* process table: pid -> what the process scan observes for the pid
    socket_file,            \* os.path.exists(SOCKET_PATH)
    daemon_pid,             \* handler -> DeamonProcessHandler._daemon_pid
    life                    \* outcome of the last lifecycle call

vars == <<now, records, review_groups, current_review_group, position, shown, calls, ret, headings,
          sentence_similarity_checker, answer, processes, socket_file, daemon_pid, life>>

\* the scoring worker's side of the state
lifecycleVars == <<processes, socket_file, daemon_pid, life>>

\* the providers' side of the state
coreVars == <<now, records, review_groups, current_review_group, position, shown, calls, ret, headings,
              sentence_similarity_checker, answer>>

-----------------------------------------------------------------------------
(* Bounds of the model *)
TicksPerDay == 2
MaxDay == 30
MaxRecords == 8
MaxRecordsSmall == 1
MaxCalls == 8
MaxLadderRecords == 2
SessionDays == 1
MinDriftRecords == 5
SortLen == 3
MaxHeadings == 3
MaxUndefinedHeadings == 2
MaxPid == 3

(* Program constants *)
MAX_RECORDS_PER_REVIEW_GROUP == 7
daysDeltaFrom1to2 == 1
daysDeltaFrom2to7 == 5
daysDeltaFrom7to30 == 23
TOP_N_RESULTS == 3
\* SimilarityScore.MEDIUM.lower_bound(); scores are in hundredths
MEDIUM_lower_bound == 60
\* the scores the scorer returns, in hundredths
ScoreValues == {59, 60}

Providers == {1}

\* the LearningProvider instances over one Review Store: two running CLI processes
Runs == {1, 2}

NoDate == -1
NoGroup == [id |-> 0, group_index |-> 0, topic |-> "", last_review_date |-> NoDate,
            next_review_date |-> NoDate, reviews_count |-> 0]

ReviewGroup(id, group_index, topic, last_review_date, next_review_date, reviews_count) ==
    [id |-> id, group_index |-> group_index, topic |-> topic,
     last_review_date |-> last_review_date, next_review_date |-> next_review_date,
     reviews_count |-> reviews_count]

-----------------------------------------------------------------------------
(* datetime *)
DateOf(ts) == ts \div TicksPerDay
AddDays(ts, d) == ts + d * TicksPerDay

-----------------------------------------------------------------------------
(* Review Store (SQLitePersistenceAdapter) *)
RECURSIVE CountTopic(_, _)
CountTopic(rows, topic) ==
    IF rows = <<>> THEN 0
    ELSE (IF Head(rows).topic = topic THEN 1 ELSE 0) + CountTopic(Tail(rows), topic)

get_number_of_review_groups_for_topic(rows, topic) == CountTopic(rows, topic)

RECURSIVE SelectTopic(_, _)
SelectTopic(rows, topic) ==
    IF rows = <<>> THEN <<>>
    ELSE (IF Head(rows).topic = topic THEN <<Head(rows)>> ELSE <<>>) \o SelectTopic(Tail(rows), topic)

get_review_groups_for_topic(rows, topic) == SelectTopic(rows, topic)

get_all_review_groups(rows) == rows

\* a division that rounds down
Ceil_Floor(count, d) == count \div d

Ceil(count, d) == (count + d - 1) \div d

\* new rows numbered by the size of the whole table instead of the topic's group count
RECURSIVE InsertGroups_TableIndex(_, _, _, _)
InsertGroups_TableIndex(rows, topic, index, required) ==
    IF index >= required THEN rows
    ELSE InsertGroups_TableIndex(Append(rows, ReviewGroup(Len(rows) + 1, Len(rows), topic, NoDate, NoDate, 0)),
                                 topic, index + 1, required)

RECURSIVE InsertGroups(_, _, _, _)
InsertGroups(rows, topic, index, required) ==
    IF index >= required THEN rows
    ELSE InsertGroups(Append(rows, ReviewGroup(Len(rows) + 1, index, topic, NoDate, NoDate, 0)),
                      topic, index + 1, required)

\* a reconcile that inserts the required groups whatever the number of existing ones
update_review_groups_for_topic_Again(rows, topic, count) ==
    LET existing_groups_number == CountTopic(rows, topic)
    IN  InsertGroups(rows, topic, existing_groups_number,
                     existing_groups_number + Ceil(count, MAX_RECORDS_PER_REVIEW_GROUP))

update_review_groups_for_topic(rows, topic, count) ==
    LET existing_groups_number == CountTopic(rows, topic)
        required_groups == Ceil(count, MAX_RECORDS_PER_REVIEW_GROUP)
    IN  IF required_groups > existing_groups_number
        THEN InsertGroups(rows, topic, existing_groups_number, required_groups)
        ELSE rows

update_review_group_dates_and_count(rows, g) ==
    [i \in 1..Len(rows) |->
        IF rows[i].id = g.id
        THEN [rows[i] EXCEPT !.last_review_date = g.last_review_date,
                             !.next_review_date = g.next_review_date,
                             !.reviews_count = g.reviews_count]
        ELSE rows[i]]

-----------------------------------------------------------------------------
(* LearningProvider *)
is_last_group_of_review_groups(rows, g) ==
    get_number_of_review_groups_for_topic(rows, g.topic) - 1 = g.group_index

\* the size of the last group taken as the remainder of the record count
get_number_of_records_in_review_group_Modulo(rows, recs, g) ==
    IF is_last_group_of_review_groups(rows, g)
    THEN recs[g.topic] % MAX_RECORDS_PER_REVIEW_GROUP
    ELSE MAX_RECORDS_PER_REVIEW_GROUP

\* every group taken as full
get_number_of_records_in_review_group_Capacity(rows, recs, g) == MAX_RECORDS_PER_REVIEW_GROUP

get_number_of_records_in_review_group(rows, recs, g) ==
    IF is_last_group_of_review_groups(rows, g)
    THEN recs[g.topic] - (Len(get_review_groups_for_topic(rows, g.topic)) - 1) * MAX_RECORDS_PER_REVIEW_GROUP
    ELSE MAX_RECORDS_PER_REVIEW_GROUP

\* get_next_record_to_review, lines 80-83: the cursor moves on (no wrap) from position pos
\* a cursor that wraps one call late
CursorAdvances_OneLate(pos, number_of_records) ==
    pos < number_of_records /\ pos < MAX_RECORDS_PER_REVIEW_GROUP

\* a cursor that stops only at the capacity of a group, not at the group's last record
CursorAdvances_ToCapacity(pos, number_of_records) == pos < MAX_RECORDS_PER_REVIEW_GROUP - 1

\* a cursor bounded by the group's number of records only
CursorAdvances_NoCapacity(pos, number_of_records) == pos < number_of_records - 1

CursorAdvances(pos, number_of_records) ==
    pos < number_of_records - 1 /\ pos < MAX_RECORDS_PER_REVIEW_GROUP - 1

\* get_next_record_to_review, lines 77-86: the absolute indices that k calls pass to the Record
\* Store, from cursor position pos on, in a session on group g
RECURSIVE SessionIndices(_, _, _, _, _)
SessionIndices(rows, recs, g, pos, k) ==
    IF k = 0 THEN <<>>
    ELSE <<g.group_index * MAX_RECORDS_PER_REVIEW_GROUP + pos>>
         \o SessionIndices(rows, recs, g,
                           IF CursorAdvances(pos, get_number_of_records_in_review_group(rows, recs, g))
                           THEN pos + 1 ELSE 0,
                           k - 1)

\* The gate of _update_review_group_dates_and_count: the branch taken for g at time t
\* (-1 when no branch applies).
\* a gate that lets every traversal through
GateIsDue_Always(next_review_date, t) == TRUE

\* a gate that lets no traversal through
GateIsDue_Never(next_review_date, t) == FALSE

GateIsDue(next_review_date, t) == DateOf(next_review_date) <= DateOf(t)

UpdateBranch(g, t) ==
    IF g.reviews_count = 0 THEN 0
    ELSE IF g.reviews_count = 1 /\ GateIsDue(g.next_review_date, t) THEN 1
    ELSE IF g.reviews_count = 2 /\ GateIsDue(g.next_review_date, t) THEN 2
    ELSE IF g.reviews_count = 3 /\ GateIsDue(g.next_review_date, t) THEN 3
    ELSE -1

\* the second interval taken from the cumulative 2-7-30 pattern instead of the delta
NextReviewDate_Cumulative(branch, t) ==
    CASE branch = 0 -> AddDays(t, daysDeltaFrom1to2)
      [] branch = 1 -> AddDays(t, 7)
      [] branch = 2 -> AddDays(t, daysDeltaFrom7to30)
      [] OTHER -> NoDate

\* a graduated group that keeps a next review date
NextReviewDate_NeverNone(branch, t) ==
    CASE branch = 0 -> AddDays(t, daysDeltaFrom1to2)
      [] branch = 1 -> AddDays(t, daysDeltaFrom2to7)
      [] OTHER -> AddDays(t, daysDeltaFrom7to30)

NextReviewDate(branch, t) ==
    CASE branch = 0 -> AddDays(t, daysDeltaFrom1to2)
      [] branch = 1 -> AddDays(t, daysDeltaFrom2to7)
      [] branch = 2 -> AddDays(t, daysDeltaFrom7to30)
      [] OTHER -> NoDate

\* The group object after _update_review_group_dates_and_count at time t.
UpdatedGroup(g, t) ==
    IF UpdateBranch(g, t) = -1 THEN g
    ELSE [g EXCEPT !.last_review_date = t,
                   !.next_review_date = NextReviewDate(UpdateBranch(g, t), t),
                   !.reviews_count = @ + 1]

\* The store after _update_review_group_dates_and_count: written only in a branch.
UpdatedStore(rows, g, t) ==
    IF UpdateBranch(g, t) = -1 THEN rows
    ELSE update_review_group_dates_and_count(rows, UpdatedGroup(g, t))

\* _update_review_group_dates_and_count raises on next_review_date.date() when the date is None
UpdateRaises(g) == g.reviews_count \in 1..3 /\ g.next_review_date = NoDate

\* FilePersistenceAdapter.get_record_by_index: tuple indexing, IndexError beyond the records
RecordExists(recs, topic, index) == index >= 0 /\ index < recs[topic]

-----------------------------------------------------------------------------
\* FilePersistenceAdapter.get_topic_list: tuple(sorted(topics)); str comparison is by code point
CodePoints ==
    [ad |-> <<97, 100>>, bash |-> <<98, 97, 115, 104>>, curl |-> <<99, 117, 114, 108>>,
     undefined |-> <<117, 110, 100, 101, 102, 105, 110, 101, 100>>]

RECURSIVE SeqLess(_, _)
SeqLess(a, b) ==
    IF b = <<>> THEN FALSE
    ELSE IF a = <<>> THEN TRUE
    ELSE IF Head(a) # Head(b) THEN Head(a) < Head(b)
    ELSE SeqLess(Tail(a), Tail(b))

StrLess(s, t) == SeqLess(CodePoints[s], CodePoints[t])

RECURSIVE SortedTopics(_)
SortedTopics(S) ==
    IF S = {} THEN <<>>
    ELSE LET least == CHOOSE t \in S : \A u \in S \ {t} : StrLess(t, u)
         IN  <<least>> \o SortedTopics(S \ {least})

get_topic_list(recs) == SortedTopics(DOMAIN recs)

count_records_for_topic(recs, topic) == recs[topic]

\* a fetch that reconciles the first topic of the list only
UpdateAllTopics_FirstOnly(rows, recs, topics) ==
    IF topics = <<>> THEN rows
    ELSE update_review_groups_for_topic(rows, Head(topics), count_records_for_topic(recs, Head(topics)))

\* fetch_groups_to_review, lines 91-92: every topic is reconciled, in get_topic_list order
RECURSIVE UpdateAllTopics(_, _, _)
UpdateAllTopics(rows, recs, topics) ==
    IF topics = <<>> THEN rows
    ELSE UpdateAllTopics(update_review_groups_for_topic(rows, Head(topics),
                                                        count_records_for_topic(recs, Head(topics))),
                         recs, Tail(topics))

\* fetch_groups_to_review, lines 96-101: the sort key; datetime.max stands for None
DatetimeMax == 1000000

\* a sort key in which a missing date is the earliest date
SortKey_NoneFirst(x) ==
    <<IF x.next_review_date # NoDate THEN x.next_review_date ELSE 0,
      x.reviews_count,
      CodePoints[x.topic],
      IF x.next_review_date = NoDate THEN 1 ELSE 0>>

SortKey(x) ==
    <<IF x.next_review_date # NoDate THEN x.next_review_date ELSE DatetimeMax,
      x.reviews_count,
      CodePoints[x.topic],
      IF x.next_review_date = NoDate THEN 1 ELSE 0>>

\* Python's tuple comparison k1 < k2 of two sort keys
KeyLess(k1, k2) ==
    IF k1[1] # k2[1] THEN k1[1] < k2[1]
    ELSE IF k1[2] # k2[2] THEN k1[2] < k2[2]
    ELSE IF k1[3] # k2[3] THEN SeqLess(k1[3], k2[3])
    ELSE k1[4] < k2[4]

\* sorted() is stable: x, which comes after the elements of s in the input, goes behind
\* every element of s whose key is not greater than its own
RECURSIVE InsertSorted(_, _)
InsertSorted(s, x) ==
    IF s = <<>> THEN <<x>>
    ELSE IF KeyLess(SortKey(x), SortKey(Head(s))) THEN <<x>> \o s
    ELSE <<Head(s)>> \o InsertSorted(Tail(s), x)

RECURSIVE Sorted(_, _)
Sorted(done, todo) ==
    IF todo = <<>> THEN done ELSE Sorted(InsertSorted(done, Head(todo)), Tail(todo))

-----------------------------------------------------------------------------
(* Record Store, as the match engine reads it.  A topic file is given by the number of
   headings of each of its records; a record is its heading lines followed by one body
   line, and a heading's id is its line number. *)
RecordHeading(topic, id, alternative_headings_id) ==
    [topic |-> topic, id |-> id, alternative_headings_id |-> alternative_headings_id]

RecordHeadingMatch(record_heading, similarity_indice) ==
    [record_heading |-> record_heading, similarity_indice |-> similarity_indice]

\* line number of the first heading of record b of a file
RECURSIVE FirstLine(_, _)
FirstLine(sizes, b) == IF b = 1 THEN 1 ELSE FirstLine(sizes, b - 1) + sizes[b - 1] + 1

\* _define_siblings_for_heading: the ids of the other headings of the siblings block
siblings_id(sizes, b, line_number) ==
    (FirstLine(sizes, b) .. (FirstLine(sizes, b) + sizes[b] - 1)) \ {line_number}

\* extract_level_1_headings and get_referenced_headings_list_for_topic, from record b on
RECURSIVE HeadingsFrom(_, _, _)
HeadingsFrom(topic, sizes, b) ==
    IF b > Len(sizes) THEN <<>>
    ELSE [k \in 1..sizes[b] |->
              RecordHeading(topic, FirstLine(sizes, b) + k - 1,
                            siblings_id(sizes, b, FirstLine(sizes, b) + k - 1))]
         \o HeadingsFrom(topic, sizes, b + 1)

extract_level_1_headings(topic, sizes) == HeadingsFrom(topic, sizes, 1)

\* FilePersistenceAdapter.get_body: the body of record (topic, id); "" is EmptyBody
get_body(topic, id) == [topic |-> topic, id |-> id]

EmptyBody == [topic |-> "", id |-> 0]

(* KnowledgeProvider *)
\* __match_topics with whole_word: the known topics that are words of the query, as a set
match_topics(sentence, known_topics) ==
    {known_topics[i] : i \in {j \in 1..Len(known_topics) : known_topics[j] \in sentence}}

\* tuple(topic_matches): the orders in which a set can be iterated
TuplesOf(S) ==
    {t \in [1..Cardinality(S) -> S] : \A i, j \in 1..Cardinality(S) : i # j => t[i] # t[j]}

RECURSIVE get_topics_headings(_, _)
get_topics_headings(store, topics) ==
    IF topics = <<>> THEN <<>>
    ELSE store[Head(topics)] \o get_topics_headings(store, Tail(topics))

\* rank_similarities: the (index, score) rankings the scorer can return over n candidates:
\* the top_n of the candidates, each index once, scores in descending order
rank_similarities(n, top_n) ==
    LET len == IF n < top_n THEN n ELSE top_n
    IN  {r \in [1..len -> (0..(n - 1)) \X ScoreValues] :
            /\ \A i, j \in 1..len : i # j => r[i][1] # r[j][1]
            /\ \A i \in 1..(len - 1) : r[i][2] >= r[i + 1][2]}

IsDropped_AnyEarlier(ranked, index) ==
    \E j \in 1..(index - 1) :
        ranked[index].record_heading.id \in ranked[j].record_heading.alternative_headings_id

\* the condition of __purge_headings_from_a_same_record (indices from 1)
IsDropped(ranked, index) ==
    /\ index > 1
    /\ ranked[index].record_heading.id \in ranked[index - 1].record_heading.alternative_headings_id

\* a purge that returns the kept entries last to first
RECURSIVE PurgeFrom_Reversed(_, _)
PurgeFrom_Reversed(ranked, index) ==
    IF index > Len(ranked) THEN <<>>
    ELSE PurgeFrom_Reversed(ranked, index + 1)
         \o (IF IsDropped(ranked, index) THEN <<>> ELSE <<ranked[index]>>)

RECURSIVE PurgeFrom(_, _)
PurgeFrom(ranked, index) ==
    IF index > Len(ranked) THEN <<>>
    ELSE (IF IsDropped(ranked, index) THEN <<>> ELSE <<ranked[index]>>) \o PurgeFrom(ranked, index + 1)

purge_headings_from_a_same_record(ranked) == PurgeFrom(ranked, 1)

IsRelevant_Strict(similarity_indice) == similarity_indice > MEDIUM_lower_bound

\* the relevance gate of ask
IsRelevant(similarity_indice) == similarity_indice >= MEDIUM_lower_bound

\* The outcome of an ask: the error raised ("none" when it returned), what it read from the
\* Record Store (the topic list, the headings of topics, the pool they make), what it gave to
\* and took from the scorer, and the pair it returned.
Answer(op, sentence, raised, listed, topics, pool, scored, ranking, ranked, matches, body_fetched, body) ==
    [op |-> op, sentence |-> sentence, raised |-> raised, listed |-> listed, topics |-> topics,
     pool |-> pool, scored |-> scored, ranking |-> ranking, ranked |-> ranked,
     matches |-> matches, body_fetched |-> body_fetched, body |-> body]

NoAnswer == Answer("none", {}, "none", FALSE, <<>>, <<>>, FALSE, <<>>, <<>>, <<>>, FALSE, EmptyBody)

\* the scorer is checked after the topic list is read
NoScorerAnswer_AfterListing(sentence) ==
    Answer("ask", sentence, "ValueError", TRUE, <<>>, <<>>, FALSE, <<>>, <<>>, <<>>, FALSE, EmptyBody)

\* ask without a scorer: ValueError, raised first
NoScorerAnswer(sentence) ==
    Answer("ask", sentence, "ValueError", FALSE, <<>>, <<>>, FALSE, <<>>, <<>>, <<>>, FALSE, EmptyBody)

\* ask when the file of a selected topic does not exist: open() raises
MissingFileAnswer(sentence, topics) ==
    Answer("ask", sentence, "FileNotFoundError", TRUE, topics, <<>>, FALSE, <<>>, <<>>, <<>>, FALSE, EmptyBody)

\* the empty pool is given to the scorer, which ranks nothing
EmptyPoolAnswer_Scored(sentence, topics) ==
    Answer("ask", sentence, "none", TRUE, topics, <<>>, TRUE, <<>>, <<>>, <<>>, FALSE, EmptyBody)

\* ask on an empty pool: ((), "") at once
EmptyPoolAnswer(sentence, topics) ==
    Answer("ask", sentence, "none", TRUE, topics, <<>>, FALSE, <<>>, <<>>, <<>>, FALSE, EmptyBody)

-----------------------------------------------------------------------------
(* The scoring worker (DeamonProcessHandler).  The process table gives, for every pid, what
   the process scan observes: no entry ("free"), an entry whose cmdline does not name the
   daemon module ("other"), a daemon that has not yet bound its socket ("starting"), a
   daemon that has ("daemon"), or an entry whose info raises the named psutil error. *)
Pids == 1..MaxPid

Handlers == {1, 2}

ScanErrors == {"NoSuchProcess", "AccessDenied", "ZombieProcess"}

DaemonEntries == {"starting", "daemon"}

OtherEntries == {"free", "other"} \cup ScanErrors

\* the result of the process scan: the error raised ("none" when it returned) and the pid of
\* the process found (0 for None)
Scan(raised, pid) == [raised |-> raised, pid |-> pid]

\* _get_daemon_process, from entry pid on: psutil.process_iter yields the entries in pid order
RECURSIVE ScanFrom(_, _)
ScanFrom(table, pid) ==
    IF pid \notin DOMAIN table THEN Scan("none", 0)
    ELSE IF table[pid] \in DaemonEntries THEN Scan("none", pid)
    ELSE IF table[pid] \in ScanErrors THEN Scan(table[pid], 0)
    ELSE ScanFrom(table, pid + 1)

get_daemon_process(table) == ScanFrom(table, 1)

\* a start that never sees the running daemon
DaemonFound_Never(proc) == FALSE

\* start_daemon, line 64: proc is not None
DaemonFound(proc) == proc.pid # 0

\* a socket file that stays where it is
clear_socket_file_Keeps(file) == file

\* clear_socket_file: whether the socket file exists afterwards
clear_socket_file(file) == IF file THEN FALSE ELSE file

\* the outcome of a lifecycle call: the error raised ("none" when it returned), the pid of the
\* process it spawned (0 for none), whether it removed the socket file, whether it killed the
\* process after a terminate that timed out, and the value it returned
Life(op, h, raised, spawned, removed, killed, result) ==
    [op |-> op, h |-> h, raised |-> raised, spawned |-> spawned, removed |-> removed,
     killed |-> killed, result |-> result]

NoLife == Life("none", 0, "none", 0, FALSE, FALSE, FALSE)

\* DeamonProcessHandler.__init__ of every handler, over a process table and a cache directory
InitLifecycle(table, file) ==
    /\ processes = table
    /\ socket_file = file
    /\ daemon_pid = [h \in Handlers |-> 0]
    /\ life = NoLife

\* DeamonProcessHandler.start_daemon.  The child is spawned at a free pid (Popen raises OSError
\* when there is none); when the wait for the socket ends, the child has bound it or has not.
StartDaemon(h) ==
    LET proc == get_daemon_process(processes)
        free == {pid \in Pids : processes[pid] = "free"}
    IN  /\ IF proc.raised # "none"
           THEN /\ life' = Life("start", h, proc.raised, 0, FALSE, FALSE, FALSE)
                /\ UNCHANGED <<processes, socket_file, daemon_pid>>
           ELSE IF ~DaemonFound(proc)
           THEN IF free = {}
                THEN /\ socket_file' = clear_socket_file(socket_file)
                     /\ life' = Life("start", h, "OSError", 0, socket_file /\ ~socket_file', FALSE, FALSE)
                     /\ UNCHANGED <<processes, daemon_pid>>
                ELSE \E pid \in free, progress \in DaemonEntries :
                        /\ processes' = [processes EXCEPT ![pid] = progress]
                        /\ socket_file' = (clear_socket_file(socket_file) \/ progress = "daemon")
                        /\ daemon_pid' = [daemon_pid EXCEPT ![h] = pid]
                        /\ life' = Life("start", h, "none", pid,
                                        socket_file /\ ~clear_socket_file(socket_file), FALSE, FALSE)
           ELSE /\ daemon_pid' = [daemon_pid EXCEPT ![h] = proc.pid]
                /\ life' = Life("start", h, "none", 0, FALSE, FALSE, FALSE)
                /\ UNCHANGED <<processes, socket_file>>
        /\ UNCHANGED coreVars

\* DeamonProcessHandler.stop_daemon.  psutil.Process(pid) raises NoSuchProcess when the pid
\* does not exist; the process exits on terminate, or wait times out and it is killed (a
\* killed child that is not waited for stays in the table as a zombie).
StopDaemon(h) ==
    /\ IF daemon_pid[h] # 0
       THEN IF processes[daemon_pid[h]] = "free"
            THEN /\ life' = Life("stop", h, "NoSuchProcess", 0, FALSE, FALSE, FALSE)
                 /\ UNCHANGED <<processes, socket_file, daemon_pid>>
            ELSE \E killed \in BOOLEAN, left \in {"free", "ZombieProcess"} :
                    /\ ~killed => left = "free"
                    /\ processes' = [processes EXCEPT ![daemon_pid[h]] = left]
                    /\ daemon_pid' = [daemon_pid EXCEPT ![h] = 0]
                    /\ socket_file' = clear_socket_file(socket_file)
                    /\ life' = Life("stop", h, "none", 0, socket_file /\ ~socket_file', killed, FALSE)
       ELSE /\ life' = Life("stop", h, "none", 0, FALSE, FALSE, FALSE)
            /\ UNCHANGED <<processes, socket_file, daemon_pid>>
    /\ UNCHANGED coreVars

\* DeamonProcessHandler.is_daemon_running
IsDaemonRunning(h) ==
    LET proc == get_daemon_process(processes)
    IN  /\ life' = Life("is_running", h, proc.raised, 0, FALSE, FALSE,
                        proc.raised = "none" /\ proc.pid # 0)
        /\ UNCHANGED <<processes, socket_file, daemon_pid>>
        /\ UNCHANGED coreVars

\* DeamonProcessHandler.retrieve_daemon
RetrieveDaemon(h) ==
    LET proc == get_daemon_process(processes)
    IN  /\ IF proc.raised = "none" /\ proc.pid # 0
           THEN daemon_pid' = [daemon_pid EXCEPT ![h] = proc.pid]
           ELSE UNCHANGED daemon_pid
        /\ life' = Life("retrieve", h, proc.raised, 0, FALSE, FALSE,
                        proc.raised = "none" /\ proc.pid # 0)
        /\ UNCHANGED <<processes, socket_file>>
        /\ UNCHANGED coreVars

\* The daemon runs ServerSocket.init: bind creates the socket file (or fails on an existing one)
DaemonInit(pid) ==
    /\ processes[pid] = "starting"
    /\ processes' = [processes EXCEPT ![pid] = "daemon"]
    /\ socket_file' = TRUE
    /\ life' = Life("daemon_init", 0, "none", 0, FALSE, FALSE, FALSE)
    /\ UNCHANGED daemon_pid
    /\ UNCHANGED coreVars

\* The daemon ends on an error at runtime; it leaves its socket file behind
DaemonExits(pid) ==
    /\ processes[pid] \in DaemonEntries
    /\ \E left \in {"free", "ZombieProcess"} : processes' = [processes EXCEPT ![pid] = left]
    /\ life' = Life("daemon_exit", 0, "none", 0, FALSE, FALSE, FALSE)
    /\ UNCHANGED <<socket_file, daemon_pid>>
    /\ UNCHANGED coreVars

\* Other processes come and go between two calls: what the scan observes for a pid that holds
\* no daemon changes
ProcessChanges(pid, entry) ==
    /\ processes[pid] \notin DaemonEntries
    /\ entry # processes[pid]
    /\ processes' = [processes EXCEPT ![pid] = entry]
    /\ life' = Life("process", 0, "none", 0, FALSE, FALSE, FALSE)
    /\ UNCHANGED <<socket_file, daemon_pid>>
    /\ UNCHANGED coreVars

-----------------------------------------------------------------------------
Outcome(op, p, ok, wrapped, index, groups) ==
    [op |-> op, p |-> p, ok |-> ok, wrapped |-> wrapped, index |-> index, groups |-> groups]

\* The state after construction, over a Record Store holding the files and a Review Store
\* holding rows
InitCore(files, rows, checker) ==
    /\ now = 0
    /\ records = [t \in DOMAIN files |-> Len(files[t])]
    /\ review_groups = rows
    /\ current_review_group = [p \in Runs |-> NoGroup]
    /\ position = [p \in Runs |-> 0]
    /\ shown = {}
    /\ calls = [p \in Runs |-> 0]
    /\ ret = Outcome("new", 1, TRUE, FALSE, -1, <<>>)
    /\ headings = [t \in DOMAIN files |-> extract_level_1_headings(t, files[t])]
    /\ sentence_similarity_checker = checker
    /\ answer = NoAnswer

\* the state after construction when no process runs and no socket file exists
InitStore(files, rows, checker) ==
    /\ InitCore(files, rows, checker)
    /\ InitLifecycle([pid \in Pids |-> "free"], FALSE)

\* a Record Store of recs[t] records of one heading each; the CLI configures a scorer
InitWith(recs, rows) == InitStore([t \in DOMAIN recs |-> [b \in 1..recs[t] |-> 1]], rows, TRUE)

\* LearningProvider.__init__
NewProvider(p) ==
    /\ current_review_group' = [current_review_group EXCEPT ![p] = NoGroup]
    /\ position' = [position EXCEPT ![p] = 0]
    /\ calls' = [calls EXCEPT ![p] = 0]
    /\ ret' = Outcome("new", p, TRUE, FALSE, -1, <<>>)
    /\ UNCHANGED <<now, records, review_groups, shown, headings, sentence_similarity_checker, answer>>
    /\ UNCHANGED lifecycleVars

\* LearningProvider.fetch_review_groups_for_topic
FetchReviewGroupsForTopic(p, topic) ==
    /\ review_groups' = update_review_groups_for_topic(review_groups, topic,
                                                       count_records_for_topic(records, topic))
    /\ ret' = Outcome("fetch_topic", p, TRUE, FALSE, -1, get_review_groups_for_topic(review_groups', topic))
    /\ UNCHANGED <<now, records, current_review_group, position, shown, calls, headings, sentence_similarity_checker, answer>>
    /\ UNCHANGED lifecycleVars

\* LearningProvider.fetch_groups_to_review
FetchGroupsToReview(p) ==
    /\ review_groups' = UpdateAllTopics(review_groups, records, get_topic_list(records))
    /\ ret' = Outcome("fetch_groups", p, TRUE, FALSE, -1, Sorted(<<>>, get_all_review_groups(review_groups')))
    /\ UNCHANGED <<now, records, current_review_group, position, shown, calls, headings, sentence_similarity_checker, answer>>
    /\ UNCHANGED lifecycleVars

\* an init_review_session that keeps the cursor of the previous session
InitReviewSession_KeepsCursor(p, id) ==
    /\ IF id \in 1..Len(review_groups)
       THEN /\ current_review_group' = [current_review_group EXCEPT ![p] = review_groups[id]]
            /\ calls' = [calls EXCEPT ![p] = 0]
            /\ ret' = Outcome("init", p, TRUE, FALSE, id, <<>>)
            /\ UNCHANGED position
       ELSE /\ ret' = Outcome("init", p, FALSE, FALSE, id, <<>>)
            /\ UNCHANGED <<current_review_group, position, calls>>
    /\ UNCHANGED <<now, records, review_groups, shown, headings, sentence_similarity_checker, answer>>
    /\ UNCHANGED lifecycleVars

\* LearningProvider.init_review_session; get_review_group_by_id raises when the id is absent.
\* The outcome records the requested id in its index field.
InitReviewSession(p, id) ==
    /\ IF id \in 1..Len(review_groups)
       THEN /\ current_review_group' = [current_review_group EXCEPT ![p] = review_groups[id]]
            /\ position' = [position EXCEPT ![p] = 0]
            /\ calls' = [calls EXCEPT ![p] = 0]
            /\ ret' = Outcome("init", p, TRUE, FALSE, id, <<>>)
       ELSE /\ ret' = Outcome("init", p, FALSE, FALSE, id, <<>>)
            /\ UNCHANGED <<current_review_group, position, calls>>
    /\ UNCHANGED <<now, records, review_groups, shown, headings, sentence_similarity_checker, answer>>
    /\ UNCHANGED lifecycleVars

\* LearningProvider.get_next_record_to_review.  The cursor and the group are updated before the
\* record is fetched (line 88), so they are updated also when the fetch raises (ok = FALSE).
GetNextRecordToReview(p) ==
    LET g == current_review_group[p]
        global_record_position == g.group_index * MAX_RECORDS_PER_REVIEW_GROUP + position[p]
        advance == CursorAdvances(position[p], get_number_of_records_in_review_group(review_groups, records, g))
        found == RecordExists(records, g.topic, global_record_position)
    IN  /\ g.id # 0
        /\ IF advance
           THEN /\ position' = [position EXCEPT ![p] = @ + 1]
                /\ ret' = Outcome("next", p, found, FALSE, global_record_position, <<>>)
                /\ UNCHANGED <<current_review_group, review_groups>>
           ELSE /\ position' = [position EXCEPT ![p] = 0]
                /\ IF UpdateRaises(g)
                   THEN /\ ret' = Outcome("next", p, FALSE, TRUE, global_record_position, <<>>)
                        /\ UNCHANGED <<current_review_group, review_groups>>
                   ELSE /\ current_review_group' = [current_review_group EXCEPT ![p] = UpdatedGroup(g, now)]
                        /\ review_groups' = UpdatedStore(review_groups, g, now)
                        /\ ret' = Outcome("next", p, found, TRUE, global_record_position, <<>>)
        /\ UNCHANGED <<now, records, headings, sentence_similarity_checker, answer>>
        /\ UNCHANGED lifecycleVars

\* history of a get_next_record_to_review step of provider p: the number of calls of the session
CountCall(p) == calls' = [calls EXCEPT ![p] = IF @ < MaxCalls THEN @ + 1 ELSE @]

\* history of a get_next_record_to_review step of provider p: the (group id, position) pairs
\* returned since the group's count last changed
TrackShown(p) ==
    LET id == current_review_group[p].id
        returned == IF ret'.ok THEN {<<id, position[p]>>} ELSE {}
    IN  shown' = IF \E i \in 1..Len(review_groups) :
                        review_groups'[i].reviews_count # review_groups[i].reviews_count
                 THEN {s \in shown : s[1] # id}
                 ELSE shown \cup returned

\* The user edits a topic file: the topic's record count changes
EditRecords(topic, n) ==
    /\ n # records[topic]
    /\ records' = [records EXCEPT ![topic] = n]
    /\ headings' = [headings EXCEPT ![topic] = extract_level_1_headings(topic, [b \in 1..n |-> 1])]
    /\ ret' = Outcome("edit", 0, TRUE, FALSE, -1, <<>>)
    /\ UNCHANGED <<now, review_groups, current_review_group, position, shown, calls,
                   sentence_similarity_checker, answer>>
    /\ UNCHANGED lifecycleVars

\* Time passes between two calls, up to the last tick of day maxDay
AdvanceClock(d, maxDay) ==
    /\ now + d <= (maxDay + 1) * TicksPerDay - 1
    /\ now' = now + d
    /\ ret' = Outcome("clock", 0, TRUE, FALSE, -1, <<>>)
    /\ UNCHANGED <<records, review_groups, current_review_group, position, shown, calls, headings, sentence_similarity_checker, answer>>
    /\ UNCHANGED lifecycleVars

\* KnowledgeProvider.ask on a query holding the words of sentence.  Without a scorer it
\* raises at once; reading the file of the forced topic "undefined" raises when the file does
\* not exist.
Ask(sentence) ==
    /\ IF ~sentence_similarity_checker
       THEN answer' = NoScorerAnswer(sentence)
       ELSE \E topic_matches \in TuplesOf(match_topics(sentence, get_topic_list(records))) :
              LET topics == topic_matches \o <<"undefined">>
              IN  IF "undefined" \notin DOMAIN headings
                  THEN answer' = MissingFileAnswer(sentence, topics)
                  ELSE LET pool == get_topics_headings(headings, topics)
                       IN  IF pool = <<>>
                           THEN answer' = EmptyPoolAnswer(sentence, topics)
                           ELSE \E top_n_similar_ranking \in rank_similarities(Len(pool), TOP_N_RESULTS) :
                                   LET ranked == [i \in 1..Len(top_n_similar_ranking) |->
                                                     RecordHeadingMatch(pool[top_n_similar_ranking[i][1] + 1],
                                                                        top_n_similar_ranking[i][2])]
                                       top_n_similar_headings == purge_headings_from_a_same_record(ranked)
                                       relevant == IsRelevant(top_n_similar_ranking[1][2])
                                       best == top_n_similar_headings[1].record_heading
                                   IN  answer' = Answer("ask", sentence, "none", TRUE, topics, pool, TRUE,
                                                        top_n_similar_ranking, ranked,
                                                        top_n_similar_headings, relevant,
                                                        IF relevant THEN get_body(best.topic, best.id)
                                                        ELSE EmptyBody)
    /\ UNCHANGED <<now, records, review_groups, current_review_group, position, shown, calls, ret,
                   headings, sentence_similarity_checker>>
    /\ UNCHANGED lifecycleVars

-----------------------------------------------------------------------------
(* The scheduler over a Record Store that is edited between calls *)
Init == InitWith([t \in {"bash", "curl"} |-> 0], <<>>)

GetNext(p) == GetNextRecordToReview(p) /\ UNCHANGED <<shown, calls>>

Edit(topic) == \E n \in 0..(IF topic = "bash" THEN MaxRecords ELSE MaxRecordsSmall) : EditRecords(topic, n)

Next ==
    \/ \E p \in Providers : NewProvider(p)
    \/ \E p \in Providers, topic \in DOMAIN records : FetchReviewGroupsForTopic(p, topic)
    \/ \E p \in Providers : FetchGroupsToReview(p)
    \/ \E p \in Providers, id \in 1..(Len(review_groups) + 1) : InitReviewSession(p, id)
    \/ \E p \in Providers : GetNext(p)
    \/ \E topic \in DOMAIN records : Edit(topic)

Spec == Init /\ [][Next]_vars

-----------------------------------------------------------------------------
(* The interval ladder over the days: one topic, a stable Record Store *)
InitLadder == \E n \in 1..MaxLadderRecords : InitWith([t \in {"bash"} |-> n], <<>>)

GetNextCounted(p) == GetNextRecordToReview(p) /\ CountCall(p) /\ UNCHANGED shown

Tick == AdvanceClock(1, MaxDay)

NextDay == AdvanceClock(TicksPerDay, MaxDay)

NextLadder ==
    \/ \E p \in Providers : NewProvider(p)
    \/ \E p \in Providers : FetchReviewGroupsForTopic(p, "bash")
    \/ \E p \in Providers, id \in 1..(Len(review_groups) + 1) : InitReviewSession(p, id)
    \/ \E p \in Providers : GetNextCounted(p)
    \/ Tick
    \/ NextDay

SpecLadder == InitLadder /\ [][NextLadder]_vars

-----------------------------------------------------------------------------
(* The interval ladder under daily reviews: one topic, a stable Record Store.  On the first
   FreeDays days anything or nothing happens; from then on a day ends only when the call
   that just returned completed a traversal of the group's session. *)
LadderDays == daysDeltaFrom1to2 + daysDeltaFrom2to7 + daysDeltaFrom7to30

FreeDays == MaxDay - LadderDays

\* the call that just returned completed a traversal
Traversed == ret.op = "next" /\ ret.wrapped /\ ret.ok

\* the clock moves by d ticks; midnight passes only after a traversal once the free days are over
DailyClock(d) ==
    /\ (DateOf(now + d) # DateOf(now) /\ DateOf(now) >= FreeDays) => Traversed
    /\ AdvanceClock(d, MaxDay)

GetNextDaily(p) == GetNextRecordToReview(p) /\ UNCHANGED <<shown, calls>>

\* the call made with the cursor at position k
GetNextAt(p, k) == position[p] = k /\ GetNextDaily(p)

NextDaily ==
    \/ \E p \in Providers : FetchReviewGroupsForTopic(p, "bash")
    \/ \E p \in Providers, id \in 1..Len(review_groups) : InitReviewSession(p, id)
    \/ \E p \in Providers : GetNextDaily(p)
    \/ DailyClock(1)
    \/ DailyClock(TicksPerDay)

\* every day the user opens the topic, starts the session and goes through it to its end:
\* a session that comes to a position again and again goes on from it
DailyReviews ==
    /\ \A p \in Providers : WF_vars(FetchReviewGroupsForTopic(p, "bash"))
    /\ \A p \in Providers : WF_vars(\E id \in 1..Len(review_groups) : InitReviewSession(p, id))
    /\ \A p \in Providers, k \in 0..(MAX_RECORDS_PER_REVIEW_GROUP - 1) : SF_vars(GetNextAt(p, k))
    /\ SF_vars(DailyClock(TicksPerDay))

SpecDaily == InitLadder /\ [][NextDaily]_vars /\ DailyReviews

-----------------------------------------------------------------------------
(* Review sessions over a stable Record Store, the calls of a session counted *)
InitSession ==
    \E n \in 0..MaxRecords, m \in 0..MaxRecordsSmall :
        InitWith([t \in {"bash", "curl"} |-> IF t = "bash" THEN n ELSE m], <<>>)

\* a session runs within a day or over midnight: the clock moves by whole days
SessionNextDay == AdvanceClock(TicksPerDay, SessionDays)

NextSession ==
    \/ \E p \in Providers : NewProvider(p)
    \/ \E p \in Providers, topic \in DOMAIN records : FetchReviewGroupsForTopic(p, topic)
    \/ \E p \in Providers : FetchGroupsToReview(p)
    \/ \E p \in Providers, id \in 1..(Len(review_groups) + 1) : InitReviewSession(p, id)
    \/ \E p \in Providers : GetNextCounted(p)
    \/ SessionNextDay

SpecSession == InitSession /\ [][NextSession]_vars

-----------------------------------------------------------------------------
(* Two review sessions over the same Review Store: the calls of two LearningProvider
   instances interleave, each call committing its write before the next one starts *)
NextConcurrent ==
    \/ \E p \in Runs : FetchReviewGroupsForTopic(p, "bash")
    \/ \E p \in Runs, id \in 1..Len(review_groups) : InitReviewSession(p, id)
    \/ \E p \in Runs : GetNext(p)
    \/ SessionNextDay

SpecConcurrent == InitLadder /\ [][NextConcurrent]_vars

-----------------------------------------------------------------------------
(* Review sessions while the topic file is edited, the returned records recorded *)
InitHistory == InitWith([t \in {"bash"} |-> MaxRecords], <<>>)

GetNextTracked(p) == GetNextRecordToReview(p) /\ TrackShown(p) /\ UNCHANGED calls

EditDrift == \E n \in MinDriftRecords..MaxRecords : EditRecords("bash", n)

NextHistory ==
    \/ \E p \in Providers : FetchReviewGroupsForTopic(p, "bash")
    \/ \E p \in Providers, id \in 1..(Len(review_groups) + 1) : InitReviewSession(p, id)
    \/ \E p \in Providers : GetNextTracked(p)
    \/ EditDrift

SpecHistory == InitHistory /\ [][NextHistory]_vars

-----------------------------------------------------------------------------
(* fetch_groups_to_review over a Review Store that holds SortLen groups in any stage of the      *)
(* ladder and in any row order; the dataset has no topic file, as in                             *)
(* test_fetch_groups_to_review_Should_return_all_groups_to_review_ordered_by_nearest_next_review_date *)
SortTopics == {"ad", "bash", "curl"}
SortDates == {100, 101}

\* the schedules the ladder produces: never reviewed, count c due at date d, graduated
SortSchedules ==
    {<<NoDate, NoDate, 0>>, <<20, NoDate, 4>>}
    \cup {<<d - daysDeltaFrom1to2 * TicksPerDay, d, 1>> : d \in SortDates}
    \cup {<<d - daysDeltaFrom2to7 * TicksPerDay, d, 2>> : d \in SortDates}
    \cup {<<d - daysDeltaFrom7to30 * TicksPerDay, d, 3>> : d \in SortDates}

StoreOf(topics, schedules) ==
    [i \in 1..Len(topics) |->
        ReviewGroup(i, CountTopic(SubSeq([j \in 1..Len(topics) |-> [topic |-> topics[j]]], 1, i - 1), topics[i]),
                    topics[i], schedules[i][1], schedules[i][2], schedules[i][3])]

InitSort ==
    \E topics \in [1..SortLen -> SortTopics], schedules \in [1..SortLen -> SortSchedules] :
        InitWith(<<>>, StoreOf(topics, schedules))

NextSort == \E p \in Providers : FetchGroupsToReview(p)

SpecSort == InitSort /\ [][NextSort]_vars

(* The match engine over every small Record Store: the file of topic bash, and the file of
   the forced topic "undefined" or no such file *)
RECURSIVE SumOf(_)
SumOf(sizes) == IF sizes = <<>> THEN 0 ELSE Head(sizes) + SumOf(Tail(sizes))

\* the files of at most maxHeadings headings: the number of headings of each record
FileShapes(maxHeadings) ==
    {sizes \in UNION {[1..n -> 1..maxHeadings] : n \in 0..maxHeadings} : SumOf(sizes) <= maxHeadings}

AskStores ==
    {[bash |-> b, undefined |-> u] : b \in FileShapes(MaxHeadings), u \in FileShapes(MaxUndefinedHeadings)}
    \cup {[bash |-> b] : b \in FileShapes(MaxHeadings)}

\* the words of the query that can name a topic
AskSentences == {{}, {"bash"}, {"bash", "undefined"}}

InitAsk == \E files \in AskStores, checker \in BOOLEAN : InitStore(files, <<>>, checker)

\* the ask command of the CLI: one query is prompted for and answered per run
AskOnce(sentence) == answer.op = "none" /\ Ask(sentence)

NextAsk == \E sentence \in AskSentences : AskOnce(sentence)

SpecAsk == InitAsk /\ [][NextAsk]_vars

-----------------------------------------------------------------------------
(* The lifecycle of the scoring worker: two handlers (two runs of the CLI) over a process
   table that holds no daemon at first, and a cache directory with or without a stale socket
   file *)
InitDaemon ==
    \E table \in [Pids -> OtherEntries], file \in BOOLEAN :
        /\ InitCore(<<>>, <<>>, TRUE)
        /\ InitLifecycle(table, file)

NextDaemon ==
    \/ \E h \in Handlers : StartDaemon(h)
    \/ \E h \in Handlers : StopDaemon(h)
    \/ \E h \in Handlers : IsDaemonRunning(h)
    \/ \E h \in Handlers : RetrieveDaemon(h)
    \/ \E pid \in Pids : DaemonInit(pid)
    \/ \E pid \in Pids : DaemonExits(pid)
    \/ \E pid \in Pids, entry \in OtherEntries : ProcessChanges(pid, entry)

SpecDaemon == InitDaemon /\ [][NextDaemon]_vars

-----------------------------------------------------------------------------
(* Properties of the review scheduler *)
SameSchedule(a, b) ==
    /\ a.last_review_date = b.last_review_date
    /\ a.next_review_date = b.next_review_date
    /\ a.reviews_count = b.reviews_count

Min(a, b) == IF a < b THEN a ELSE b

\* the number of records of the Record Store that lie in group g
GroupSize(recs, g) ==
    IF recs[g.topic] - 7 * g.group_index <= 0 THEN 0 ELSE Min(7, recs[g.topic] - 7 * g.group_index)

IsDue(g, t) == g.next_review_date # NoDate /\ DateOf(g.next_review_date) <= DateOf(t)

C1_Becomes(g, h, rows, c, nxt) ==
    /\ h.reviews_count = c
    /\ h.next_review_date = nxt
    /\ h.last_review_date = now
    /\ SameSchedule(rows[g.id], h)
    /\ rows[g.id].id = g.id

C1_Step ==
    (ret'.op = "next" /\ ret'.wrapped /\ ret'.ok) =>
        LET g == current_review_group[ret'.p]
            h == current_review_group'[ret'.p]
        IN  /\ g.reviews_count = 0 => C1_Becomes(g, h, review_groups', 1, now + 1 * TicksPerDay)
            /\ (g.reviews_count = 1 /\ IsDue(g, now)) => C1_Becomes(g, h, review_groups', 2, now + 5 * TicksPerDay)
            /\ (g.reviews_count = 2 /\ IsDue(g, now)) => C1_Becomes(g, h, review_groups', 3, now + 23 * TicksPerDay)
            /\ (g.reviews_count = 3 /\ IsDue(g, now)) => C1_Becomes(g, h, review_groups', 4, NoDate)
            /\ g.reviews_count = 4 => (h = g /\ review_groups' = review_groups)

\* C1: a get_next_record_to_review call that completes a traversal of the active group (it wraps and
\* returns the group's last record) on day T turns a group of count 0 into {1, now + 1 day}, and a
\* group of count 1, 2, 3 whose next_review_date's day is <= T into {2, now + 5 days},
\* {3, now + 23 days}, {4, None}; last_review_date becomes now, the row of the Review Store gets
\* the same three values, and a group of count 4 is left as it is.
C1_IntervalLadder == [][C1_Step]_vars

\* the last rung was climbed by the call that just returned
C1_Witness ==
    /\ ret.op = "next" /\ ret.wrapped /\ ret.ok
    /\ current_review_group[1].reviews_count = 4
    /\ current_review_group[1].next_review_date = NoDate
    /\ current_review_group[1].last_review_date = now
    /\ review_groups[current_review_group[1].id].reviews_count = 4

C2_Step ==
    \A i \in 1..Len(review_groups) :
        LET r == review_groups[i]
        IN  (r.reviews_count \in 1..3 /\ DateOf(r.last_review_date) = DateOf(now) /\ DateOf(now') = DateOf(now)) =>
                /\ SameSchedule(review_groups'[i], r)
                /\ \A p \in Providers :
                      current_review_group'[p].id = r.id => SameSchedule(current_review_group'[p], r)

\* C2: once a group has moved to count 1, 2 or 3 on day T (its last_review_date is on T), no step
\* taken on day T (further traversals, a new provider, a new session) changes its
\* last_review_date, next_review_date or reviews_count, in the store or in the session's object.
C2_SameDayIdempotent == [][C2_Step]_vars

\* a new session's first full traversal ended later on the day of the move to count 2
C2_Witness ==
    /\ ret.op = "next" /\ ret.wrapped /\ ret.ok
    /\ calls[1] = GroupSize(records, current_review_group[1])
    /\ current_review_group[1].reviews_count = 2
    /\ current_review_group[1].last_review_date < now
    /\ DateOf(current_review_group[1].last_review_date) = DateOf(now)
    /\ SameSchedule(review_groups[current_review_group[1].id], current_review_group[1])

C3_Step ==
    (ret'.op = "next" /\ calls'[ret'.p] < MaxCalls) =>
        LET p == ret'.p
            g == current_review_group[p]
            h == current_review_group'[p]
            n == GroupSize(records, g)
            k == calls'[p]
        IN  n >= 1 =>
              /\ k % n # 0 =>
                    /\ ~ret'.wrapped
                    /\ h = g
                    /\ review_groups' = review_groups
                    /\ position'[p] = k % n
              /\ k % n = 0 =>
                    /\ ret'.wrapped /\ ret'.ok
                    /\ ret'.index = 7 * g.group_index + n - 1
                    /\ position'[p] = 0
                    /\ (g.reviews_count = 0 \/ (g.reviews_count \in 1..3 /\ IsDue(g, now))) =>
                          /\ h.reviews_count = g.reviews_count + 1
                          /\ review_groups'[g.id].reviews_count = g.reviews_count + 1

\* C3: in a session on a group of n records, a call whose number k in the session is not a
\* multiple of n (the first n-1 calls) changes neither the group object nor the store and leaves
\* the cursor at k mod n; the n-th call wraps, returns the group's last record (index
\* 7 * group_index + n - 1), runs the interval step in that same call and leaves the cursor at 0.
C3_StepRunsOnLastRecord == [][C3_Step]_vars

\* the 7th call of a session on a full group returned record 6 and moved the group to count 1
C3_Witness ==
    /\ ret.op = "next" /\ ret.wrapped /\ ret.ok /\ ret.index = 6
    /\ calls[1] = 7
    /\ position[1] = 0
    /\ current_review_group[1].reviews_count = 1
    /\ current_review_group[1].last_review_date = now

C4_Step ==
    \A i \in 1..Len(review_groups) :
        LET r == review_groups[i]
            s == review_groups'[i]
            returned == IF ret'.op = "next" /\ ret'.ok
                        THEN {<<current_review_group[ret'.p].id, position[ret'.p]>>} ELSE {}
        IN  /\ s.reviews_count \in 0..4
            /\ s.reviews_count >= r.reviews_count
            /\ s.reviews_count <= r.reviews_count + 1
            /\ s.reviews_count = r.reviews_count + 1 =>
                  /\ \A k \in 0..(GroupSize(records, r) - 1) : <<r.id, k>> \in (shown \cup returned)
                  /\ r.reviews_count >= 1 => IsDue(r, now)

\* C4: every group's reviews_count stays in 0..4, never decreases and grows by 1 at most in a
\* step; when it grows, every record of the group has been returned by get_next_record_to_review
\* since it last grew, and (from count 1 on) the day is on or after the group's next_review_date.
C4_CountGrowsAfterFullShow == [][C4_Step]_vars

\* C5: for every group of the Review Store, next_review_date is None exactly when reviews_count
\* is 0 or 4.
C5_NoneIffNewOrGraduated ==
    \A i \in 1..Len(review_groups) :
        (review_groups[i].next_review_date = NoDate) <=> (review_groups[i].reviews_count \in {0, 4})

\* a graduated group (count 4, no next date) next to its reviewed past
C5_Witness ==
    \E i \in 1..Len(review_groups) :
        /\ review_groups[i].reviews_count = 4
        /\ review_groups[i].next_review_date = NoDate
        /\ review_groups[i].last_review_date # NoDate

-----------------------------------------------------------------------------
(* Properties of fetch_groups_to_review *)
HasDate(g) == g.next_review_date # NoDate

TopicNotAfter(s, t) == s = t \/ StrLess(s, t)

\* g may stand before h: earlier date (no date is latest), then smaller count, then topic
C9_InOrder(g, h) ==
    \/ HasDate(g) /\ ~HasDate(h)
    \/ HasDate(g) /\ HasDate(h) /\ g.next_review_date < h.next_review_date
    \/ /\ g.next_review_date = h.next_review_date
       /\ \/ g.reviews_count < h.reviews_count
          \/ g.reviews_count = h.reviews_count /\ TopicNotAfter(g.topic, h.topic)

C10_UndatedLastByTopic ==
    ret.op = "fetch_groups" =>
        \A i, j \in 1..Len(ret.groups) :
            (i < j /\ ~HasDate(ret.groups[i])) =>
                /\ ~HasDate(ret.groups[j])
                /\ TopicNotAfter(ret.groups[i].topic, ret.groups[j].topic)

-----------------------------------------------------------------------------
(* Match engine *)
\* an ask that reached the scorer and took a ranking from it
Ranked(a) == a.op = "ask" /\ a.scored

\* the highest score of a ranking
HighestScore(ranked) ==
    CHOOSE m \in {ranked[i].similarity_indice : i \in 1..Len(ranked)} :
        \A i \in 1..Len(ranked) : ranked[i].similarity_indice <= m

\* C6: relevance gate of ask.  When the first (highest) score of the scorer's ranking, before
\* deduplication, is below 0.6, the body returned is the empty string and no body is fetched
\* from the Record Store, whatever the number of candidates; when it is at least 0.6, the body
\* returned is the Record Store's body of the (topic, id) of the first entry of the
\* deduplicated list.
C6_RelevanceGate ==
    Ranked(answer) =>
        /\ answer.ranked[1].similarity_indice = HighestScore(answer.ranked)
        /\ IF answer.ranked[1].similarity_indice < MEDIUM_lower_bound
           THEN ~answer.body_fetched /\ answer.body = EmptyBody
           ELSE /\ answer.body_fetched
                /\ answer.body = get_body(answer.matches[1].record_heading.topic,
                                          answer.matches[1].record_heading.id)

\* a relevant ranking of three entries of which deduplication removed one, and its body
C6_Witness ==
    /\ Ranked(answer)
    /\ Len(answer.ranked) = 3
    /\ Len(answer.matches) = 2
    /\ answer.ranked[1].similarity_indice = MEDIUM_lower_bound
    /\ answer.body_fetched
    /\ answer.body = get_body("bash", 1)

\* x is an alternative heading of y: a heading of y's topic that lists y's id
AlternativeOf(x, y) ==
    /\ x.topic = y.topic
    /\ y.id \in x.alternative_headings_id

\* neither heading lists the other's id
Unrelated(x, y) ==
    /\ x.id \notin y.alternative_headings_id
    /\ y.id \notin x.alternative_headings_id

RECURSIVE PurgeAgainstSurvivor(_, _, _)
PurgeAgainstSurvivor(ranked, index, kept) ==
    IF index > Len(ranked) THEN kept
    ELSE IF /\ kept # <<>>
            /\ ranked[index].record_heading.id
                   \in kept[Len(kept)].record_heading.alternative_headings_id
         THEN PurgeAgainstSurvivor(ranked, index + 1, kept)
         ELSE PurgeAgainstSurvivor(ranked, index + 1, Append(kept, ranked[index]))

\* C8: sibling deduplication scans the ranking left to right and drops an entry exactly when
\* its heading id is in the alternative_headings_id of the last entry kept so far, for every
\* ranking of up to 3 entries, also when the entry just before it was itself dropped.
C8_DropsAgainstSurvivor ==
    Ranked(answer) => answer.matches = PurgeAgainstSurvivor(answer.ranked, 1, <<>>)

-----------------------------------------------------------------------------
(* Group reconciliation *)
\* the calls that reconcile: fetch_review_groups_for_topic and fetch_groups_to_review
IsReconcile(op) == op \in {"fetch_topic", "fetch_groups"}

\* the call whose outcome is r is known to have reconciled the topic
ReconciledBy(r, topic) ==
    \/ r.op = "fetch_groups"
    \/ r.op = "fetch_topic" /\ r.groups # <<>> /\ r.groups[1].topic = topic

Max(a, b) == IF a > b THEN a ELSE b

\* the least number of groups of 7 that hold n records
RequiredGroups(n) == CHOOSE k \in 0..n : 7 * k >= n /\ (k = 0 \/ 7 * (k - 1) < n)

C11_Step ==
    /\ IsReconcile(ret'.op) =>
          /\ Len(review_groups') >= Len(review_groups)
          /\ \A i \in 1..Len(review_groups) : review_groups'[i] = review_groups[i]
          /\ \A i \in (Len(review_groups) + 1)..Len(review_groups') :
                /\ review_groups'[i].last_review_date = NoDate
                /\ review_groups'[i].next_review_date = NoDate
                /\ review_groups'[i].reviews_count = 0
    /\ (ret'.op = "fetch_topic" /\ ret'.groups # <<>> /\ ReconciledBy(ret, ret'.groups[1].topic))
          => review_groups' = review_groups
    /\ (ret'.op = "fetch_groups" /\ ret.op = "fetch_groups") => review_groups' = review_groups

\* C11: reconciliation is idempotent and append-only.  A reconcile of a topic that directly
\* follows a reconcile of the same topic (same record count) creates no group; every reconcile
\* keeps every existing row as it is (id, group_index, dates, reviews_count) and only appends
\* rows with no dates and reviews_count 0.
C11_ReconcileIdempotentAppendOnly == [][C11_Step]_vars

\* a reconcile with a larger record count appended a fresh group behind a reviewed one
C11_Witness ==
    /\ ret.op = "fetch_topic"
    /\ Len(ret.groups) = 2
    /\ ret.groups[1].reviews_count = 1
    /\ ret.groups[1].next_review_date # NoDate
    /\ ret.groups[2].reviews_count = 0
    /\ ret.groups[2].next_review_date = NoDate

C12_Step ==
    /\ \A topic \in DOMAIN records :
          CountTopic(review_groups', topic) >= CountTopic(review_groups, topic)
    /\ ret'.op = "fetch_groups" =>
          \A topic \in DOMAIN records :
              CountTopic(review_groups', topic)
                  = Max(CountTopic(review_groups, topic), RequiredGroups(records[topic]))
    /\ ret'.op = "fetch_topic" =>
          \E topic \in DOMAIN records :
              /\ ret'.groups = SelectTopic(review_groups', topic)
              /\ \A t \in DOMAIN records :
                    CountTopic(review_groups', t)
                        = IF t = topic
                          THEN Max(CountTopic(review_groups, t), RequiredGroups(records[t]))
                          ELSE CountTopic(review_groups, t)
    /\ (IsReconcile(ret'.op)
          /\ \A topic \in DOMAIN records : RequiredGroups(records[topic]) <= CountTopic(review_groups, topic))
          => review_groups' = review_groups

\* C12: groups are never deleted.  While a topic's record count rises and falls, the number
\* of its groups never decreases; after a reconcile it is max(number before, ceil(count / 7)),
\* and a reconcile with a record count that needs no more groups leaves the rows unchanged.
C12_GroupsNeverDeleted == [][C12_Step]_vars

\* a topic that shrank to one record was reconciled and kept its two groups
C12_Witness ==
    /\ ret.op = "fetch_topic"
    /\ Len(ret.groups) = 2
    /\ ret.groups[1].topic = "bash"
    /\ records["bash"] = 1

C13_Dense ==
    /\ \A topic \in DOMAIN records :
          LET groups == SelectTopic(review_groups, topic)
          IN  /\ {groups[i].group_index : i \in 1..Len(groups)} = 0..(Len(groups) - 1)
              /\ \A i, j \in 1..Len(groups) : i # j => groups[i].group_index # groups[j].group_index
    /\ \A i, j \in 1..Len(review_groups) : i # j => review_groups[i].id # review_groups[j].id

C13_Step ==
    IsReconcile(ret'.op) =>
        \A i \in (Len(review_groups) + 1)..Len(review_groups') :
            review_groups'[i].group_index
                = CountTopic(SubSeq(review_groups', 1, i - 1), review_groups'[i].topic)

\* C13: under sequential reconcile calls the group_index values of a topic's groups are
\* exactly 0..k-1, no duplicate and no gap, k being the number of groups of the topic; a new
\* group takes the number of groups the topic has when it is inserted; ids are unique over
\* all topics.
C13_DenseGroupIndices == []C13_Dense /\ [][C13_Step]_vars

\* the rows of two topics interleaved in the table, the second bash group behind a curl group
C13_Witness ==
    /\ Len(review_groups) = 3
    /\ review_groups[1].topic = "bash" /\ review_groups[1].group_index = 0
    /\ review_groups[2].topic = "curl" /\ review_groups[2].group_index = 0
    /\ review_groups[3].topic = "bash" /\ review_groups[3].group_index = 1

-----------------------------------------------------------------------------
(* Sessions *)
\* the topic of group g is reconciled: it has the groups its record count requires
IsReconciled(rows, recs, g) ==
    /\ g.id # 0
    /\ recs[g.topic] > 0
    /\ CountTopic(rows, g.topic) = RequiredGroups(recs[g.topic])

\* C14: for a reconciled topic of 7*k + r records (0 < r < 7),
\* get_number_of_records_in_review_group is 7 when the active group is not the topic's last
\* group and r when it is the last (1 for a one-record topic); for a positive multiple of 7
\* records it is 7 for every group.
C14_RecordsInGroup ==
    \A p \in Providers :
        LET g == current_review_group[p]
        IN  IsReconciled(review_groups, records, g) =>
              LET n == records[g.topic]
                  r == n % 7
                  last == g.group_index = CountTopic(review_groups, g.topic) - 1
              IN  get_number_of_records_in_review_group(review_groups, records, g)
                      = IF last /\ r # 0 THEN r ELSE 7

\* the active group is the second and last group of a topic of 8 records: it holds 1 record
C14_Witness ==
    /\ current_review_group[1].id # 0
    /\ current_review_group[1].group_index = 1
    /\ records[current_review_group[1].topic] = 8
    /\ IsReconciled(review_groups, records, current_review_group[1])
    /\ get_number_of_records_in_review_group(review_groups, records, current_review_group[1]) = 1

C15_Step ==
    (ret'.op = "next" /\ calls[ret'.p] < MaxCalls) =>
        LET p == ret'.p
            g == current_review_group[p]
            n == GroupSize(records, g)
            k == calls'[p] - 1
        IN  n >= 1 =>
              /\ ret'.ok
              /\ ret'.index = g.group_index * 7 + (k % n)

\* C15: in a session initialised on a group holding n records (1 <= n <= 7), the k-th call
\* of get_next_record_to_review (k = 0, 1, 2, ...) returns the record at absolute index
\* group_index * 7 + (k mod n): the records are shown in order and the call after the
\* group's last record returns the group's first record again.
C15_RecordsInOrder == [][C15_Step]_vars

\* the fourth call of a session on a group of 3 records returned the group's first record
C15_Witness ==
    /\ ret.op = "next" /\ ret.ok /\ ret.index = 0
    /\ calls[1] = 4
    /\ records[current_review_group[1].topic] = 3
    /\ position[1] = 1

\* the rows of the Review Store whose id is id
RowsWithId(rows, id) == {i \in 1..Len(rows) : rows[i].id = id}

C16_Step ==
    ret'.op = "init" =>
        LET p == ret'.p
            found == RowsWithId(review_groups, ret'.index)
        IN  IF found # {}
            THEN /\ ret'.ok
                 /\ \E i \in found : current_review_group'[p] = review_groups[i]
                 /\ position'[p] = 0
            ELSE /\ ~ret'.ok
                 /\ current_review_group'[p] = current_review_group[p]
                 /\ position'[p] = position[p]

\* C16: init_review_session(id) makes the stored group with that id the active group and
\* sets the cursor to 0 whatever the cursor was before; when no group has that id it raises a
\* not-found error and leaves the active group and the cursor as they were.
C16_InitReviewSession == [][C16_Step]_vars

\* an init_review_session on an absent id failed in the middle of a session: the session's
\* group is still active and its cursor still at 3
C16_Witness ==
    /\ ret.op = "init" /\ ~ret.ok
    /\ ret.index = Len(review_groups) + 1
    /\ current_review_group[1].id # 0
    /\ position[1] = 3

-----------------------------------------------------------------------------
(* Match engine: the pool and the ranked list *)
\* an ask that returned
Returned(a) == a.op = "ask" /\ a.raised = "none"

\* the topics whose headings a query selects: the detected topics and the sentinel
SelectedTopics(sentence) == match_topics(sentence, get_topic_list(records)) \cup {"undefined"}

\* C17: whenever the heading pool assembled for a query is empty (no detected topic has
\* headings and the sentinel topic has none), ask returns ((), "") and neither the scorer nor
\* the Record Store's body lookup is invoked.
C17_EmptyPool ==
    (Returned(answer) /\ \A t \in SelectedTopics(answer.sentence) : headings[t] = <<>>) =>
        /\ answer.pool = <<>>
        /\ answer.matches = <<>>
        /\ answer.body = EmptyBody
        /\ ~answer.scored
        /\ ~answer.body_fetched

\* a query naming bash was asked over empty bash.md and undefined.md files
C17_Witness ==
    /\ Returned(answer)
    /\ answer.sentence = {"bash"}
    /\ answer.topics = <<"bash", "undefined">>
    /\ headings["bash"] = <<>>
    /\ headings["undefined"] = <<>>
    /\ answer.matches = <<>>
    /\ answer.body = EmptyBody

\* C18: for every query the heading pool given to the scorer is the concatenation, each
\* selected topic exactly once, of the headings of the textually detected topics (each in its
\* file order, topics in detection order) followed by the headings of the sentinel topic
\* "undefined", which is always included and always last, whether or not the query names it.
C18_PoolOnceSentinelLast ==
    (Returned(answer) /\ answer.scored) =>
        \E detected \in TuplesOf(match_topics(answer.sentence, get_topic_list(records)) \ {"undefined"}) :
            answer.pool = get_topics_headings(headings, detected \o <<"undefined">>)

\* the scores of a list of matches are in descending order
Descending(list) ==
    \A i \in 1..(Len(list) - 1) : list[i].similarity_indice >= list[i + 1].similarity_indice

\* C19: the ranked list returned by ask has at most top-N (3) entries and is an
\* order-preserving subsequence of the scorer's ranking: each entry pairs pool[index] with
\* the score the scorer gave that index, and the survivors are in descending score order
\* whenever the scorer's ranking is.
C19_RankedSubsequence ==
    Ranked(answer) =>
        /\ Len(answer.matches) <= TOP_N_RESULTS
        /\ \E f \in [1..Len(answer.matches) -> 1..Len(answer.ranking)] :
              /\ \A i, j \in 1..Len(answer.matches) : i < j => f[i] < f[j]
              /\ \A i \in 1..Len(answer.matches) :
                    answer.matches[i]
                        = RecordHeadingMatch(answer.pool[answer.ranking[f[i]][1] + 1],
                                             answer.ranking[f[i]][2])
        /\ (\A i \in 1..(Len(answer.ranking) - 1) : answer.ranking[i][2] >= answer.ranking[i + 1][2])
              => Descending(answer.matches)

\* of a ranking of three entries with scores 0.60, 0.60, 0.59 the first and the third are returned
C19_Witness ==
    /\ Ranked(answer)
    /\ Len(answer.ranking) = 3
    /\ answer.ranking[1][2] = 60 /\ answer.ranking[2][2] = 60 /\ answer.ranking[3][2] = 59
    /\ Len(answer.matches) = 2
    /\ answer.matches[1] = RecordHeadingMatch(answer.pool[answer.ranking[1][1] + 1], 60)
    /\ answer.matches[2] = RecordHeadingMatch(answer.pool[answer.ranking[3][1] + 1], 59)

\* C20: ask on a match engine built without a scorer raises an invalid-state error
\* (ValueError) for every query, before the topic list, any heading or any body is read from
\* the Record Store, and it returns no result.
C20_NoScorer ==
    (answer.op = "ask" /\ ~sentence_similarity_checker) =>
        /\ answer.raised = "ValueError"
        /\ ~answer.listed
        /\ answer.topics = <<>>
        /\ answer.pool = <<>>
        /\ ~answer.scored
        /\ ~answer.body_fetched
        /\ answer.matches = <<>>
        /\ answer.body = EmptyBody

\* a query naming bash, asked without a scorer over a bash.md that holds headings
C20_Witness ==
    /\ answer.op = "ask"
    /\ ~sentence_similarity_checker
    /\ answer.sentence = {"bash"}
    /\ headings["bash"] # <<>>
    /\ answer.raised = "ValueError"

-----------------------------------------------------------------------------
(* fetch_groups_to_review reconciles *)
C21_Step ==
    ret'.op = "fetch_groups" =>
        /\ \A topic \in DOMAIN records :
              CountTopic(review_groups', topic) >= RequiredGroups(records[topic])
        /\ Len(ret'.groups) = Len(review_groups')
        /\ \A i \in 1..Len(review_groups') :
              Cardinality({j \in 1..Len(ret'.groups) : ret'.groups[j] = review_groups'[i]}) = 1
        /\ \A i \in 1..Len(review_groups) :
              /\ review_groups'[i].id = review_groups[i].id
              /\ SameSchedule(review_groups'[i], review_groups[i])

\* C21: fetch_groups_to_review reconciles every known topic before it reads the groups.
\* After it returns, every known topic of n records has at least ceil(n / 7) groups in the
\* Review Store, the returned sequence holds every stored group exactly once (the groups just
\* created included), and no existing group's dates or reviews_count were changed.
C21_FetchReconcilesAllTopics == [][C21_Step]_vars

\* a fetch over a reviewed bash group returned it with the second bash group and the curl
\* group that the record counts (8 and 1) require
C21_Witness ==
    /\ ret.op = "fetch_groups"
    /\ records["bash"] = 8 /\ records["curl"] = 1
    /\ Len(ret.groups) = 3
    /\ Len(review_groups) = 3
    /\ review_groups[1].topic = "bash" /\ review_groups[1].reviews_count = 1
    /\ review_groups[2].topic = "bash" /\ review_groups[2].reviews_count = 0
    /\ review_groups[3].topic = "curl"
    /\ ret.groups[1] = review_groups[1]

-----------------------------------------------------------------------------
(* The scoring worker *)
\* the pids of the daemon processes of a process table
DaemonPids(table) == {pid \in DOMAIN table : table[pid] \in DaemonEntries}

C22_Step ==
    life'.op = "start" =>
        /\ DaemonPids(processes) # {} =>
              /\ life'.spawned = 0
              /\ processes' = processes
              /\ ~life'.removed
              /\ socket_file' = socket_file
              /\ life'.raised = "none" => daemon_pid'[life'.h] \in DaemonPids(processes)
        /\ life'.raised = "none" => daemon_pid'[life'.h] # 0

\* C22: starting the scoring worker twice is a no-op.  When start_daemon is called while a
\* daemon process exists, no second process is spawned, the socket file is not removed, and
\* (when the call returns) daemon_pid is the pid of the existing process; after every
\* start_daemon that returns, daemon_pid is not 0.
C22_StartTwiceNoOp == [][C22_Step]_vars

\* the second handler started the worker that the first handler had spawned: both hold the
\* pid of the one daemon, and its socket file is still there
C22_Witness ==
    /\ life.op = "start" /\ life.h = 2 /\ life.raised = "none" /\ life.spawned = 0
    /\ daemon_pid[1] # 0
    /\ daemon_pid[2] = daemon_pid[1]
    /\ DaemonPids(processes) = {daemon_pid[1]}
    /\ socket_file

C23_Step ==
    life'.op = "stop" =>
        LET h == life'.h
        IN  /\ life'.raised = "none" => daemon_pid'[h] = 0
            /\ (life'.raised = "none" /\ daemon_pid[h] # 0) =>
                  /\ ~socket_file'
                  /\ processes'[daemon_pid[h]] \notin DaemonEntries
            /\ daemon_pid[h] = 0 =>
                  /\ life'.raised = "none"
                  /\ daemon_pid' = daemon_pid
                  /\ socket_file' = socket_file
                  /\ processes' = processes

\* C23: after stop_daemon returns on a handler that holds the pid of the daemon it started,
\* daemon_pid is 0 and the socket file does not exist, both when the process exits on
\* terminate and when terminate times out and the process is killed; a stop_daemon call on a
\* handler whose daemon_pid is 0 (a second stop) does not raise and changes nothing:
\* daemon_pid stays 0 and the socket file stays absent.
C23_StopClearsPidAndSocket == [][C23_Step]_vars

\* a stop whose terminate timed out killed the daemon and removed its socket file
C23_Witness ==
    /\ life.op = "stop" /\ life.raised = "none" /\ life.killed /\ life.removed
    /\ daemon_pid[life.h] = 0
    /\ ~socket_file
    /\ DaemonPids(processes) = {}

C24_Step ==
    (life'.op = "is_running" /\ DaemonPids(processes) = {} /\ daemon_pid[life'.h] = 0) =>
        /\ life'.raised = "none"
        /\ ~life'.result

\* C24: is_running on a scorer whose worker was never started (no daemon process exists, the
\* handler holds no pid) returns false and does not raise, for every process table the scan
\* can observe, entries that vanish, are zombies or deny access during the scan included.
C24_IsRunningNeverRaises == [][C24_Step]_vars

-----------------------------------------------------------------------------
(* A fetch that fails *)
C25_Step ==
    (/\ ret'.op = "next"
     /\ ~RecordExists(records, current_review_group[ret'.p].topic, ret'.index)) =>
        LET p == ret'.p
        IN  /\ ~ret'.ok
            /\ position'[p] = position[p]
            /\ current_review_group'[p] = current_review_group[p]
            /\ review_groups' = review_groups

\* C25: get_next_record_to_review fetches the record from the Record Store before it
\* advances state.  Whenever the fetch fails (the absolute index is beyond the topic's
\* records), the cursor, the active group's reviews_count and dates, and the rows of the
\* Review Store are the same as before the call.
C25_FetchBeforeAdvance == [][C25_Step]_vars

-----------------------------------------------------------------------------
(* Deduplication across topics *)
\* the entry at index is an alternative heading of the record of the entry before it
SameRecordAsPrevious(ranked, index) ==
    /\ index > 1
    /\ ranked[index].record_heading.topic = ranked[index - 1].record_heading.topic
    /\ ranked[index].record_heading.id \in ranked[index - 1].record_heading.alternative_headings_id

RECURSIVE PurgeSameRecord(_, _)
PurgeSameRecord(ranked, index) ==
    IF index > Len(ranked) THEN <<>>
    ELSE (IF SameRecordAsPrevious(ranked, index) THEN <<>> ELSE <<ranked[index]>>)
         \o PurgeSameRecord(ranked, index + 1)

\* C26: sibling deduplication in ask removes a ranked entry only if it is an alternative
\* heading of the same record as the entry before it.  An entry whose topic differs from its
\* predecessor's topic is never removed, even when its id equals one of the predecessor's
\* alternative_headings_id (ids are unique within one topic only).
C26_DedupWithinTopic ==
    Ranked(answer) => answer.matches = PurgeSameRecord(answer.ranked, 1)

-----------------------------------------------------------------------------
(* Bounds of the cursor *)
C27_InRange ==
    /\ \A p \in Providers : position[p] \in 0..6
    /\ ret.op = "next" =>
          LET g == current_review_group[ret.p]
          IN  /\ ret.index >= g.group_index * 7
              /\ ret.index <= g.group_index * 7 + 6

C27_Step ==
    ret'.op = "next" =>
        ret'.index = current_review_group[ret'.p].group_index * 7 + position[ret'.p]

\* C27: in every reachable state of a review session the cursor is in 0..6, and every
\* absolute index that get_next_record_to_review passes to the Record Store is
\* group_index * 7 + cursor, within [group_index * 7, group_index * 7 + 6], whatever record
\* count the Record Store reports and whether or not the topic's groups were reconciled after
\* the count changed.
C27_CursorBounds == []C27_InRange /\ [][C27_Step]_vars

\* a topic that grew to 8 records and was not reconciled: its one group reports 8 records,
\* and the session wrapped after index 6
C27_Witness ==
    /\ ret.op = "next" /\ ret.wrapped /\ ret.index = 6
    /\ position[1] = 0
    /\ records["bash"] = 8
    /\ CountTopic(review_groups, "bash") = 1
    /\ current_review_group[1].topic = "bash"

-----------------------------------------------------------------------------
(* Liveness of the ladder *)
Graduated ==
    /\ Len(review_groups) = 1
    /\ review_groups[1].reviews_count = 4
    /\ review_groups[1].next_review_date = NoDate

\* C28: liveness of the ladder.  If from some day on the group's session is fully traversed
\* at least once on every calendar day (days advance, the record count is stable), the group
\* eventually has reviews_count 4 and no next review date, and stays so for ever.
C28_LadderLiveness == <>[]Graduated

\* the daily reviews began after the free days and the group graduated on the last day
C28_Witness ==
    /\ Graduated
    /\ Traversed
    /\ DateOf(now) = MaxDay
    /\ DateOf(review_groups[1].last_review_date) = MaxDay

-----------------------------------------------------------------------------
(* Partition of a topic's records *)
\* the indices returned by one session on each of the groups from the i-th on, each session
\* making as many calls as its group holds records
RECURSIVE TraverseGroups(_, _, _, _)
TraverseGroups(rows, recs, groups, i) ==
    IF i > Len(groups) THEN <<>>
    ELSE SessionIndices(rows, recs, groups[i], 0,
                        get_number_of_records_in_review_group(rows, recs, groups[i]))
         \o TraverseGroups(rows, recs, groups, i + 1)

C29_Partition ==
    \A topic \in DOMAIN records :
        (records[topic] >= 1 /\ CountTopic(review_groups, topic) = RequiredGroups(records[topic])) =>
            LET groups == SelectTopic(review_groups, topic)
                sizes == [i \in 1..Len(groups) |->
                             get_number_of_records_in_review_group(review_groups, records, groups[i])]
                walk == TraverseGroups(review_groups, records, groups, 1)
            IN  /\ \A i \in 1..(Len(groups) - 1) : sizes[i] = 7
                /\ sizes[Len(groups)] \in 1..7
                /\ SumOf(sizes) = records[topic]
                /\ Len(walk) = records[topic]
                /\ {walk[j] : j \in 1..Len(walk)} = 0..(records[topic] - 1)

C29_Step ==
    ret'.op = "next" =>
        <<ret'.index>> = SessionIndices(review_groups, records, current_review_group[ret'.p],
                                        position[ret'.p], 1)

\* C29: partition coverage.  For a topic of n >= 1 records that has the groups its count
\* requires and no more, the groups partition the records: every group but the last holds 7
\* records, the last holds 1 to 7, the sizes sum to n, and one session per group, of as many
\* get_next_record_to_review calls as the group's size, returns each record index 0..n-1
\* exactly once.
C29_PartitionCoverage == []C29_Partition /\ [][C29_Step]_vars

\* the session on the second group of a topic of 8 records returned the one record left, index 7
C29_Witness ==
    /\ ret.op = "next" /\ ret.ok /\ ret.wrapped /\ ret.index = 7
    /\ records["bash"] = 8
    /\ CountTopic(review_groups, "bash") = 2
    /\ current_review_group[1].group_index = 1
    /\ current_review_group[1].reviews_count = 1

-----------------------------------------------------------------------------
(* Two sessions on one group *)
C30_Step ==
    \A i \in 1..Len(review_groups) :
        /\ review_groups'[i].reviews_count >= review_groups[i].reviews_count
        /\ (review_groups[i].next_review_date # NoDate /\ review_groups'[i].next_review_date # NoDate)
              => review_groups'[i].next_review_date >= review_groups[i].next_review_date

\* C30: when two review sessions (two LearningProvider instances over the same Review
\* Store) are interleaved on the same group, the group's reviews_count in the Review Store
\* never decreases: a session that completes a traversal while it holds a group snapshot
\* loaded before the other session's transitions does not overwrite the stored group with a
\* lower reviews_count or an earlier stage of the ladder.
C30_CountNeverDecreases == [][C30_Step]_vars

====
